---- MODULE Spec2Model ----
(***************************************************************************)
(* Model of src/dashboard_app.py: the monthly sales dashboard script.      *)
(*                                                                         *)
(* One run of the script is the chain Load -> Check -> Derive -> Kpi ->    *)
(* Render; Export is the click on the download button and Reupload is the  *)
(* user feeding the downloaded file back into the file uploader, which     *)
(* starts the next run.                                                    *)
(*                                                                         *)
(* Column names: "period" = 월, "revenue" = 매출액, "prior" = 전년동월,      *)
(* "growth" = 증감률, "label" = 월_label, "mavg" = 매출액_이동평균.           *)
(*                                                                         *)
(* Text of a period cell: the sequence of its hyphen-separated numeric     *)
(* fields, <<2024, 1>> for "2024-01", <<2024, 1, 1>> for "2024-01-01",     *)
(* <<>> for an empty cell.  Text of a numeric cell: a record with kind     *)
(* "int" ("12", field v), "float" (a decimal text such as "14.3", fields   *)
(* n = 143 and d = 10), "empty" or "junk" ("abc").                         *)
(*                                                                         *)
(* A float64 value is a record [nan, n, d]: NaN, or the rational n/d in    *)
(* lowest terms.  A Timestamp is <<year, month, day>>, NaT is <<>>.        *)
(***************************************************************************)
EXTENDS Integers, Sequences, FiniteSets, TLC

VARIABLES pc, uploaded, use_sample, window, df, kpi, shown, exported, err, prev

vars == <<pc, uploaded, use_sample, window, df, kpi, shown, exported, err, prev>>

----------------------------------------------------------------------------
(* Bounds of the model *)

MaxRows == 3
MaxKpiRows == 2
MaxRollRows == 4
MaxExtRows == 3
MaxWindow == 3

(* st.sidebar.number_input(min_value=2, max_value=12, value=3) *)
WindowMin == 2
WindowMax == 12
WindowDefault == 3

Required == {"period", "revenue", "prior", "growth"}
NumericCols == {"revenue", "prior", "growth"}

None == [none |-> TRUE]

----------------------------------------------------------------------------
(* float64 values *)

Abs(x) == IF x < 0 THEN -x ELSE x

RECURSIVE GCD(_, _)
GCD(a, b) == IF b = 0 THEN a ELSE GCD(b, a % b)

NaN == [nan |-> TRUE, n |-> 0, d |-> 1]

Rat(n, d) ==
    LET s == IF d < 0 THEN -1 ELSE 1
        g == GCD(Abs(n), Abs(d))
    IN  [nan |-> FALSE, n |-> (s * n) \div g, d |-> (s * d) \div g]

Num(n) == [nan |-> FALSE, n |-> n, d |-> 1]

(* x / y for floats; callers guard y # 0 *)
Div(x, y) == IF x.nan \/ y.nan THEN NaN ELSE Rat(x.n * y.d, x.d * y.n)

Times(x, k) == IF x.nan THEN NaN ELSE Rat(x.n * k, x.d)

Minus(x, y) == IF x.nan \/ y.nan THEN NaN ELSE Rat(x.n * y.d - y.n * x.d, x.d * y.d)

Plus(x, y) == IF x.nan \/ y.nan THEN NaN ELSE Rat(x.n * y.d + y.n * x.d, x.d * y.d)

Less(x, y) == x.n * y.d < y.n * x.d

----------------------------------------------------------------------------
(* The embedded sample, lines 18-31 *)

SampleRow(m, rev, pri, g) ==
    [period  |-> <<2024, m>>,
     revenue |-> [kind |-> "int", v |-> rev],
     prior   |-> [kind |-> "int", v |-> pri],
     growth  |-> [kind |-> "float", n |-> g, d |-> 10]]

SAMPLE_CSV ==
    [bom  |-> FALSE,
     cols |-> Required,
     rows |-> << SampleRow(1, 12000000, 10500000, 143),
                 SampleRow(2, 13500000, 11200000, 205),
                 SampleRow(3, 11000000, 12800000, -141),
                 SampleRow(4, 18000000, 15200000, 184),
                 SampleRow(5, 21000000, 18500000, 135),
                 SampleRow(6, 19500000, 17000000, 147),
                 SampleRow(7, 17500000, 16000000, 94),
                 SampleRow(8, 16000000, 15000000, 67),
                 SampleRow(9, 15500000, 14500000, 69),
                 SampleRow(10, 22000000, 20000000, 100),
                 SampleRow(11, 23000000, 21000000, 95),
                 SampleRow(12, 24000000, 21500000, 116) >>]

----------------------------------------------------------------------------
(* load_df, lines 46-57 *)

(* pd.read_csv: the byte-order mark is skipped, cells stay text *)
read_csv(file) == [cols |-> file.cols, rows |-> file.rows]

(* a loader that reads the upload whenever there is one, the box ignored *)
Source_ignores_flag(bytes, flag) ==
    IF bytes = None THEN read_csv(SAMPLE_CSV) ELSE read_csv(bytes)

(* the source load_df reads, line 48 (no upload is None) *)
Source(bytes, flag) ==
    IF flag \/ bytes = None THEN read_csv(SAMPLE_CSV) ELSE read_csv(bytes)

(* one cell of pd.to_datetime(..., format="%Y-%m"), errors="raise":
   an empty cell is NaN and becomes NaT; a text either matches the format
   exactly or the call raises ValueError *)
PeriodOk(t) == t = <<>> \/ (Len(t) = 2 /\ t[1] \in 0..9999 /\ t[2] \in 1..12)

to_datetime(t) == IF t = <<>> THEN <<>> ELSE <<t[1], t[2], 1>>

(* one cell of pd.to_numeric(..., errors="coerce") *)
to_numeric(c) ==
    IF c.kind = "int" THEN Num(c.v)
    ELSE IF c.kind = "float" THEN Rat(c.n, c.d)
    ELSE NaN

(* the exception load_df raises on this file, "none" if it returns *)
LoadError(t) ==
    IF "period" \notin t.cols THEN "KeyError"
    ELSE IF \E i \in 1..Len(t.rows) : ~PeriodOk(t.rows[i].period) THEN "ValueError"
    ELSE IF ~(NumericCols \subseteq t.cols) THEN "KeyError"
    ELSE "none"

(* lines 53-55: the type coercions, column by column *)
CoerceRow(r, cols) ==
    [c \in cols |->
        IF c = "period" THEN to_datetime(r[c])
        ELSE IF c \in NumericCols THEN to_numeric(r[c])
        ELSE r[c]]

Coerce(t) == [i \in 1..Len(t.rows) |-> CoerceRow(t.rows[i], t.cols)]

(* df.dropna(subset=["월"]) *)
RECURSIVE dropna(_)
dropna(rows) ==
    IF rows = <<>> THEN <<>>
    ELSE IF Head(rows).period = <<>> THEN dropna(Tail(rows))
    ELSE <<Head(rows)>> \o dropna(Tail(rows))

MonthKey(ts) == ts[1] * 12 + ts[2]

(* sort_values("월") with the default kind="quicksort", which is not a
   stable sort: every ascending arrangement of the rows is a possible
   outcome.  Arrangements(rows, S): those of the rows at the positions S. *)
MinPositions(rows, S) ==
    {i \in S : \A j \in S : MonthKey(rows[i].period) <= MonthKey(rows[j].period)}

RECURSIVE Arrangements(_, _)
Arrangements(rows, S) ==
    IF S = {} THEN {<<>>}
    ELSE UNION {{<<rows[i]>> \o rest : rest \in Arrangements(rows, S \ {i})} :
                i \in MinPositions(rows, S)}

sort_values(rows) == Arrangements(rows, 1..Len(rows))

(* the dtype read_csv and to_numeric leave a numeric column with: int64
   when every cell is an integer text, float64 otherwise *)
Dtypes(t) ==
    [c \in NumericCols |->
        IF \A i \in 1..Len(t.rows) : t.rows[i][c].kind = "int"
        THEN "int64" ELSE "float64"]

(* the tables load_df may return when it raises nothing; reset_index
   numbers the rows 1..n in their new order *)
load_df(bytes, flag) ==
    LET t == Source(bytes, flag)
    IN  {[cols |-> t.cols, dtypes |-> Dtypes(t), rows |-> s] :
            s \in sort_values(dropna(Coerce(t)))}

----------------------------------------------------------------------------
(* Series reductions, skipna=True as pandas defaults *)

(* a sum with skipna=False: one missing cell makes the sum missing *)
RECURSIVE nansum_propagate(_, _, _)
nansum_propagate(rows, col, i) ==
    IF i = 0 THEN Num(0)
    ELSE Plus(nansum_propagate(rows, col, i - 1), rows[i][col])

RECURSIVE nansum(_, _, _)
nansum(rows, col, i) ==
    IF i = 0 THEN Num(0)
    ELSE IF rows[i][col].nan THEN nansum(rows, col, i - 1)
    ELSE Plus(nansum(rows, col, i - 1), rows[i][col])

(* df[col].sum() *)
sum(rows, col) == nansum(rows, col, Len(rows))

Present(rows, col) == {i \in 1..Len(rows) : ~rows[i][col].nan}

(* df[col].mean() *)
mean(rows, col) ==
    IF Present(rows, col) = {} THEN NaN
    ELSE Div(sum(rows, col), Num(Cardinality(Present(rows, col))))

(* an argmax that keeps the last position of the largest value *)
idxmax_last(rows, col) ==
    LET P == Present(rows, col)
    IN  IF P = {} THEN 0
        ELSE CHOOSE i \in P :
                /\ \A j \in P : ~Less(rows[i][col], rows[j][col])
                /\ \A j \in P : j > i => Less(rows[j][col], rows[i][col])

(* df[col].idxmax() / idxmin(): the first position of the extreme value
   among the present ones; 0 stands for "no present value", where the
   lookup df.loc[...] of lines 76-77 raises *)
idxmax(rows, col) ==
    LET P == Present(rows, col)
    IN  IF P = {} THEN 0
        ELSE CHOOSE i \in P :
                /\ \A j \in P : ~Less(rows[i][col], rows[j][col])
                /\ \A j \in P : j < i => Less(rows[j][col], rows[i][col])

idxmin(rows, col) ==
    LET P == Present(rows, col)
    IN  IF P = {} THEN 0
        ELSE CHOOSE i \in P :
                /\ \A j \in P : ~Less(rows[j][col], rows[i][col])
                /\ \A j \in P : j < i => Less(rows[i][col], rows[j][col])

(* a rolling mean with min_periods=1: partial windows give a value *)
rolling_mean_partial(rows, w, minp, i) ==
    LET lo  == IF i - w + 1 < 1 THEN 1 ELSE i - w + 1
        obs == {j \in lo..i : ~rows[j].revenue.nan}
        win == [j \in 1..(i - lo + 1) |-> rows[lo + j - 1]]
    IN  IF Cardinality(obs) >= 1
        THEN Div(sum(win, "revenue"), Num(Cardinality(obs)))
        ELSE NaN

(* rolling(window=w, min_periods=minp).mean() at position i, line 67 *)
rolling_mean(rows, w, minp, i) ==
    LET lo  == IF i - w + 1 < 1 THEN 1 ELSE i - w + 1
        obs == {j \in lo..i : ~rows[j].revenue.nan}
        win == [j \in 1..(i - lo + 1) |-> rows[lo + j - 1]]
    IN  IF Cardinality(obs) >= minp
        THEN Div(sum(win, "revenue"), Num(Cardinality(obs)))
        ELSE NaN

(* int(x): truncation toward zero *)
int(x) == IF x.n >= 0 THEN x.n \div x.d ELSE -((-x.n) \div x.d)

(* the ".1f" of lines 80-81: tenths, rounded half to even; "nan" for NaN *)
Round(n, d) ==
    LET q == n \div d
        r == n - q * d
    IN  IF 2 * r < d THEN q
        ELSE IF 2 * r > d THEN q + 1
        ELSE IF q % 2 = 0 THEN q ELSE q + 1

Fmt1(x) ==
    IF x.nan THEN [nan |-> TRUE, tenths |-> 0]
    ELSE [nan |-> FALSE, tenths |-> Round(x.n * 10, x.d)]

(* dt.strftime("%Y-%m"), line 66 *)
strftime(ts) == <<ts[1], ts[2]>>

----------------------------------------------------------------------------
(* df.to_csv(index=False).encode("utf-8-sig"), line 159 *)

FloatText(x) ==
    IF x.nan THEN [kind |-> "empty"] ELSE [kind |-> "float", n |-> x.n, d |-> x.d]

(* a datetime64 column is written as the ISO date, "2024-01-01" *)
DateText(ts) == <<ts[1], ts[2], ts[3]>>

CellText(t, c, x) ==
    IF c = "period" THEN DateText(x)
    ELSE IF c = "label" THEN x
    ELSE IF c \in NumericCols /\ t.dtypes[c] = "int64" THEN [kind |-> "int", v |-> x.n]
    ELSE FloatText(x)

to_csv(t) ==
    [bom  |-> TRUE,
     cols |-> t.cols,
     rows |-> [i \in 1..Len(t.rows) |->
                 [c \in t.cols |-> CellText(t, c, t.rows[i][c])]]]

(* the Table of section 3 inside a data frame: its four required columns *)
Table(t) == [i \in 1..Len(t.rows) |-> [c \in Required |-> t.rows[i][c]]]

----------------------------------------------------------------------------
(* The script, one action per step *)

(* line 59: df = load_df(uploaded.read() if uploaded else None, use_sample) *)
Load ==
    /\ pc = "start"
    /\ LET e == LoadError(Source(uploaded, use_sample))
       IN  IF e # "none"
           THEN /\ pc' = "load_raised"
                /\ err' = e
                /\ df' = df
           ELSE /\ pc' = "loaded"
                /\ err' = err
                /\ df' \in load_df(uploaded, use_sample)
    /\ UNCHANGED <<uploaded, use_sample, window, kpi, shown, exported, prev>>

(* line 61 *)
Invalid(t) == t.rows = <<>> \/ ~(Required \subseteq t.cols)

(* lines 61-63: st.error and st.stop, or go on *)
Check ==
    /\ pc = "loaded"
    /\ IF Invalid(df)
       THEN /\ pc' = "stopped"
            /\ shown' = [kind |-> "error"]
       ELSE /\ pc' = "valid"
            /\ shown' = shown
    /\ UNCHANGED <<uploaded, use_sample, window, df, kpi, exported, err, prev>>

(* lines 66-67: the derived columns 월_label and 매출액_이동평균 *)
augment(t, w) ==
    [cols   |-> t.cols \cup {"label", "mavg"},
     dtypes |-> t.dtypes,
     rows   |-> [i \in 1..Len(t.rows) |->
                   [c \in t.cols \cup {"label", "mavg"} |->
                      IF c = "label" THEN strftime(t.rows[i].period)
                      ELSE IF c = "mavg" THEN rolling_mean(t.rows, w, w, i)
                      ELSE t.rows[i][c]]]]

Derive ==
    /\ pc = "valid"
    /\ df' = augment(df, window)
    /\ pc' = "derived"
    /\ UNCHANGED <<uploaded, use_sample, window, kpi, shown, exported, err, prev>>

(* a year-over-year figure that forgets to subtract the prior-year sum *)
yoy_total_ratio(rows) ==
    IF sum(rows, "prior") # Num(0)
    THEN Times(Div(sum(rows, "revenue"), sum(rows, "prior")), 100)
    ELSE NaN

(* line 75 *)
yoy_total(rows) ==
    IF sum(rows, "prior") # Num(0)
    THEN Times(Div(Minus(sum(rows, "revenue"), sum(rows, "prior")), sum(rows, "prior")), 100)
    ELSE NaN

(* lines 73-77; the lookups of lines 76-77 raise when no revenue is present *)
summarize(rows) ==
    [total_sales |-> int(sum(rows, "revenue")),
     avg_growth  |-> mean(rows, "growth"),
     yoy_total   |-> yoy_total(rows),
     max_row     |-> IF idxmax(rows, "revenue") = 0 THEN None
                     ELSE rows[idxmax(rows, "revenue")],
     min_row     |-> IF idxmin(rows, "revenue") = 0 THEN None
                     ELSE rows[idxmin(rows, "revenue")]]

Kpi ==
    /\ pc = "derived"
    /\ kpi' = summarize(df.rows)
    /\ IF idxmax(df.rows, "revenue") = 0
       THEN /\ pc' = "kpi_raised"
            /\ err' = "ValueError"
       ELSE /\ pc' = "kpi"
            /\ err' = err
    /\ UNCHANGED <<uploaded, use_sample, window, df, shown, exported, prev>>

(* lines 79-82: the four metrics (the charts only read df) *)
metrics(k) ==
    [kind     |-> "metrics",
     total    |-> k.total_sales,
     avg      |-> Fmt1(k.avg_growth),
     yoy      |-> Fmt1(k.yoy_total),
     extremes |-> <<k.max_row.label, k.min_row.label>>]

Render ==
    /\ pc = "kpi"
    /\ shown' = metrics(kpi)
    /\ pc' = "rendered"
    /\ UNCHANGED <<uploaded, use_sample, window, df, kpi, exported, err, prev>>

(* lines 157-162: the download button hands out df.to_csv(index=False) *)
Export ==
    /\ pc = "rendered"
    /\ exported' = to_csv(df)
    /\ pc' = "exported"
    /\ UNCHANGED <<uploaded, use_sample, window, df, kpi, shown, err, prev>>

(* lines 37-38: the downloaded file is uploaded and the sample box
   unticked; the script runs again from the top.  prev remembers the Table
   that was exported. *)
Reupload ==
    /\ pc = "exported"
    /\ uploaded' = exported
    /\ use_sample' = FALSE
    /\ prev' = [rows |-> Table(df)]
    /\ pc' = "start"
    /\ df' = None
    /\ kpi' = None
    /\ shown' = None
    /\ exported' = None
    /\ UNCHANGED <<window, err>>

Next == Load \/ Check \/ Derive \/ Kpi \/ Render \/ Export \/ Reupload

----------------------------------------------------------------------------
(* Input files *)

IntText(k) == [kind |-> "int", v |-> k]
Junk == [kind |-> "junk"]

(* "2024-01", "2024-02", an empty cell, "2024-13" *)
PeriodCells == {<<2024, 1>>, <<2024, 2>>, <<>>, <<2024, 13>>}

RECURSIVE SeqsUpTo(_, _)
SeqsUpTo(S, n) ==
    IF n = 0 THEN {<<>>}
    ELSE LET shorter == SeqsUpTo(S, n - 1)
         IN  shorter \cup {Append(q, x) : q \in {t \in shorter : Len(t) = n - 1}, x \in S}

FileOf(cols, rows) ==
    [bom |-> FALSE, cols |-> cols,
     rows |-> [i \in 1..Len(rows) |-> [c \in cols |-> rows[i][c]]]]

Headers == {Required} \cup {Required \ {c} : c \in Required}

LoaderRows ==
    [period : PeriodCells, revenue : {IntText(1), IntText(2), Junk},
     prior : {IntText(1)}, growth : {[kind |-> "float", n |-> 5, d |-> 10]}]

LoaderFiles == {FileOf(h, q) : h \in Headers, q \in SeqsUpTo(LoaderRows, MaxRows)}

(* tables for the summary statistics: the rows come in descending order of
   month (row i of n is month n + 1 - i), the numeric cells vary *)
KpiCells ==
    [revenue : {IntText(1), IntText(2), Junk},
     prior : {IntText(0), IntText(3), Junk},
     growth : {[kind |-> "float", n |-> 15, d |-> 10],
               [kind |-> "float", n |-> -5, d |-> 10], Junk}]

KpiFile(q) ==
    [bom |-> FALSE, cols |-> Required,
     rows |-> [i \in 1..Len(q) |->
                 [period |-> <<2024, Len(q) + 1 - i>>, revenue |-> q[i].revenue,
                  prior |-> q[i].prior, growth |-> q[i].growth]]]

KpiFiles == {KpiFile(q) : q \in SeqsUpTo(KpiCells, MaxKpiRows)}

(* tables for the moving average: row i is month i, only the revenue varies *)
RollFile(q) ==
    [bom |-> FALSE, cols |-> Required,
     rows |-> [i \in 1..Len(q) |->
                 [period |-> <<2024, i>>, revenue |-> q[i],
                  prior |-> IntText(1), growth |-> IntText(1)]]]

RollFiles ==
    {RollFile(q) : q \in SeqsUpTo({IntText(1), IntText(2), IntText(4), Junk}, MaxRollRows)}

(* tables for the extreme months: any order of three months, repeats
   included, only the revenue varies *)
ExtRows ==
    [period : {<<2024, 1>>, <<2024, 2>>, <<2024, 3>>},
     revenue : {IntText(1), IntText(2), Junk},
     prior : {IntText(1)}, growth : {IntText(1)}]

ExtFiles == {FileOf(Required, q) : q \in SeqsUpTo(ExtRows, MaxExtRows)}

InitWith(files, windows) ==
    /\ pc = "start"
    /\ uploaded \in files \cup {None}
    /\ use_sample \in BOOLEAN
    /\ IF uploaded = None THEN TRUE ELSE (Len(uploaded.rows) <= 1 \/ ~use_sample)
    /\ window \in windows
    /\ df = None
    /\ kpi = None
    /\ shown = None
    /\ exported = None
    /\ err = "none"
    /\ prev = None

Init == InitWith(LoaderFiles, {WindowDefault})
Spec == Init /\ [][Next]_vars

InitKpi == InitWith(KpiFiles, {WindowDefault})
SpecKpi == InitKpi /\ [][Next]_vars

InitExt == InitWith(ExtFiles, {WindowDefault})
SpecExt == InitExt /\ [][Next]_vars

InitRoll == InitWith(RollFiles, WindowMin..MaxWindow)
SpecRoll == InitRoll /\ [][Next]_vars

----------------------------------------------------------------------------
(* Vocabulary of the properties *)

(* the run reads the uploaded file, not the sample *)
FromFile == uploaded # None /\ ~use_sample

FromSample == uploaded = None \/ use_sample

(* the summary statistics have been computed on df *)
Summarized == pc \in {"kpi", "kpi_raised", "rendered", "exported"}

(* df carries the derived columns *)
Augmented_pcs == {"derived", "kpi", "kpi_raised", "rendered", "exported"}
Augmented == pc \in Augmented_pcs

(* a period text that parses as YYYY-MM *)
Parses(t) == Len(t) = 2 /\ t[2] \in 1..12

Numeric(c) == c.kind \in {"int", "float"}

(* the value of a present cell in units of 1/k *)
Scaled(x, k) == (x.n * k) \div x.d

RECURSIVE SumAt(_, _, _, _)
SumAt(rows, col, S, k) ==
    IF S = {} THEN 0
    ELSE LET i == CHOOSE j \in S : TRUE
         IN  Scaled(rows[i][col], k) + SumAt(rows, col, S \ {i}, k)

Has(rows, col) == {i \in 1..Len(rows) : ~rows[i][col].nan}

AnyMissing(col) == \E i \in 1..Len(df.rows) : df.rows[i][col].nan

Count(q, r) == Cardinality({i \in 1..Len(q) : q[i] = r})

SameRows(a, b) ==
    /\ Len(a) = Len(b)
    /\ \A i \in 1..Len(a) : Count(a, a[i]) = Count(b, a[i])

(* the rows the claim expects of a load: rows with a parseable period, in
   input order, a non-numeric cell missing *)
RECURSIVE Expected(_)
Expected(rows) ==
    IF rows = <<>> THEN <<>>
    ELSE LET r == Head(rows)
         IN  IF Parses(r.period)
             THEN <<[c \in Required |->
                       IF c = "period" THEN <<r.period[1], r.period[2], 1>>
                       ELSE IF Numeric(r[c]) THEN to_numeric(r[c]) ELSE NaN]>>
                  \o Expected(Tail(rows))
             ELSE Expected(Tail(rows))

(* the stable ascending order of the rows at the positions S: among equal
   periods the earlier input position comes first *)
RECURSIVE StableOrder(_, _)
StableOrder(rows, S) ==
    IF S = {} THEN <<>>
    ELSE LET i == CHOOSE a \in S : \A b \in S :
                      \/ MonthKey(rows[a].period) < MonthKey(rows[b].period)
                      \/ (MonthKey(rows[a].period) = MonthKey(rows[b].period) /\ a <= b)
         IN  <<rows[i]>> \o StableOrder(rows, S \ {i})

Ascending(rows) ==
    \A i \in 1..Len(rows) : \A j \in 1..Len(rows) :
        i < j => MonthKey(rows[i].period) <= MonthKey(rows[j].period)

----------------------------------------------------------------------------
(* Properties of the loader (section 4.1) *)

(* C1: for every input file that has the four required columns, load never
   aborts on a bad cell; the rows whose period does not parse as YYYY-MM are
   absent, every other row is kept, and a non-numeric revenue, prior-year or
   growth cell is present as a missing value. *)
C1_BadCellNeverAborts ==
    (FromFile /\ pc # "start" /\ Required \subseteq uploaded.cols) =>
        /\ pc # "load_raised"
        /\ pc = "loaded" => SameRows(Table(df), Expected(uploaded.rows))

(* C2: a structural error (a required column missing, or an empty loaded
   table) never raises out of load: load returns an invalid Table, the
   validity check reports one error and stops, and nothing after the check
   runs; every table that passes the check is non-empty and has the four
   required columns. *)
C2_StructuralErrorStops ==
    /\ (FromFile /\ pc # "start" /\ ~(Required \subseteq uploaded.cols)) =>
            pc \in {"loaded", "stopped"}
    /\ pc = "stopped" => (Invalid(df) /\ shown = [kind |-> "error"])
    /\ pc \in {"valid"} \cup Augmented_pcs =>
            (df.rows # <<>> /\ Required \subseteq df.cols)

(* C5: the rows load returns are in ascending order of period, indexed
   1..n in that order, rows of the same period keep the relative order they
   had in the input (stable sort), and no row is added or duplicated. *)
C5_StableAscending ==
    pc = "loaded" =>
        LET kept == dropna(Coerce(Source(uploaded, use_sample)))
        IN  /\ Ascending(df.rows)
            /\ DOMAIN df.rows = 1..Len(kept)
            /\ df.rows = StableOrder(kept, 1..Len(kept))

(* C9: round trip: the exported bytes, loaded back through load with
   use_sample false, load without an error and give a Table with the same
   rows in the same order as the Table that was exported. *)
C9_RoundTrip ==
    (prev # None /\ pc # "start") =>
        /\ pc # "load_raised"
        /\ pc = "loaded" => Table(df) = prev.rows

----------------------------------------------------------------------------
(* Properties of the aggregator (section 4.2) *)

(* the sums of the present cells, computed from the table *)
SR == SumAt(df.rows, "revenue", Has(df.rows, "revenue"), 1)
SP == SumAt(df.rows, "prior", Has(df.rows, "prior"), 1)
SG10 == SumAt(df.rows, "growth", Has(df.rows, "growth"), 10)
NG == Cardinality(Has(df.rows, "growth"))

(* y is exactly 100 * (a - b) / b *)
IsYoy(y, a, b) ==
    LET g == GCD(Abs(a - b), Abs(b))
    IN  ~y.nan /\ y.n * (b \div g) = y.d * 100 * ((a - b) \div g)

(* C3 as stated: over a valid Table that keeps a row with a missing numeric
   field the statistics propagate the missing value: total_revenue and
   cumulative_yoy_pct are missing when a revenue is missing,
   cumulative_yoy_pct when a prior-year revenue is missing, mean_growth_pct
   when a growth_pct is missing. *)
C3_MissingPropagates ==
    Summarized =>
        /\ AnyMissing("revenue") => (kpi.total_sales \notin Int /\ kpi.yoy_total.nan)
        /\ AnyMissing("prior") => kpi.yoy_total.nan
        /\ AnyMissing("growth") => kpi.avg_growth.nan

(* C3 as amended: over such a Table the sums and the mean skip the missing
   cells: total_revenue is the sum of the present revenues,
   cumulative_yoy_pct is computed from the sums of the present revenues and
   the present prior-year revenues and is missing only when the latter sum
   is zero, mean_growth_pct is the mean of the present growth values and is
   missing only when none is present; these three are computed without an
   abort. *)
C3_MissingSkipped ==
    (Summarized /\ (AnyMissing("revenue") \/ AnyMissing("prior") \/ AnyMissing("growth"))) =>
        /\ kpi.total_sales = SR
        /\ IF SP = 0 THEN kpi.yoy_total.nan ELSE IsYoy(kpi.yoy_total, SR, SP)
        /\ IF NG = 0 THEN kpi.avg_growth.nan
           ELSE ~kpi.avg_growth.nan /\ kpi.avg_growth.n * NG * 10 = kpi.avg_growth.d * SG10

C3_Witness ==
    /\ Summarized
    /\ AnyMissing("revenue") /\ AnyMissing("prior") /\ AnyMissing("growth")
    /\ kpi.total_sales > 0
    /\ ~kpi.yoy_total.nan
    /\ ~kpi.avg_growth.nan

(* C4: for every table that passes the validity check the summary
   statistics are computed without an error, and a statistic that cannot be
   computed is shown as a non-numeric display. *)
C4_SummaryNeverRaises ==
    /\ pc # "kpi_raised"
    /\ pc \in {"rendered", "exported"} =>
            /\ kpi.avg_growth.nan => shown.avg.nan
            /\ kpi.yoy_total.nan => shown.yoy.nan

(* C7: cumulative_yoy_pct is missing when sum(prior_year_revenue) is zero
   and otherwise is exactly (sum(revenue) - sum(prior_year_revenue)) /
   sum(prior_year_revenue) * 100, unrounded. *)
C7_CumulativeYoy ==
    Summarized =>
        IF SP = 0 THEN kpi.yoy_total.nan ELSE IsYoy(kpi.yoy_total, SR, SP)

C7_Witness ==
    /\ Summarized
    /\ FromFile
    /\ SP # 0
    /\ ~kpi.yoy_total.nan
    /\ kpi.yoy_total.d # 1
    /\ kpi.yoy_total.n < 0

(* the positions of the largest and of the smallest present revenue *)
Maxima ==
    {i \in Has(df.rows, "revenue") : \A j \in Has(df.rows, "revenue") :
        Scaled(df.rows[j].revenue, 1) <= Scaled(df.rows[i].revenue, 1)}

Minima ==
    {i \in Has(df.rows, "revenue") : \A j \in Has(df.rows, "revenue") :
        Scaled(df.rows[j].revenue, 1) >= Scaled(df.rows[i].revenue, 1)}

Earliest(S) == CHOOSE i \in S : \A j \in S : i <= j

(* C8: when several rows share the maximum (minimum) revenue, the max
   (min) revenue period is that of the first such row in ascending-period
   order, the earliest-occurring period. *)
C8_TiesGoToEarliest ==
    (Summarized /\ pc # "kpi_raised") =>
        /\ kpi.max_row = df.rows[Earliest(Maxima)]
        /\ kpi.min_row = df.rows[Earliest(Minima)]
        /\ \A i \in Maxima : MonthKey(kpi.max_row.period) <= MonthKey(df.rows[i].period)
        /\ \A i \in Minima : MonthKey(kpi.min_row.period) <= MonthKey(df.rows[i].period)

C8_Witness ==
    /\ Summarized /\ pc # "kpi_raised"
    /\ \E i \in Maxima : \E j \in Maxima : df.rows[i].period # df.rows[j].period
    /\ Maxima # Minima
    /\ FromFile /\ ~Ascending([i \in 1..Len(uploaded.rows) |->
                                 [period |-> to_datetime(uploaded.rows[i].period)]])

(* C6: for a window W in [2,12] the moving average of row i is missing for
   the first W-1 rows, equals the mean of the W trailing revenues wherever
   they are all present, is never a partial-window value, and on a table of
   constant revenue R of length >= W the last row's moving average is R. *)
C6_MovingAverage ==
    (Augmented /\ window \in WindowMin..WindowMax) =>
        LET rows == df.rows
            n == Len(rows)
            Full(i) == i >= window /\ \A j \in (i - window + 1)..i : ~rows[j].revenue.nan
        IN  /\ \A i \in 1..n :
                 /\ i < window => rows[i].mavg.nan
                 /\ Full(i) =>
                       /\ ~rows[i].mavg.nan
                       /\ rows[i].mavg.n * window =
                            rows[i].mavg.d * SumAt(rows, "revenue", (i - window + 1)..i, 1)
                 /\ ~rows[i].mavg.nan => Full(i)
            /\ (n >= window /\ \A i \in 1..n : rows[i].revenue = rows[1].revenue
                            /\ ~rows[1].revenue.nan)
                    => rows[n].mavg = rows[1].revenue

C6_Witness ==
    /\ Augmented
    /\ FromFile
    /\ Len(df.rows) > window
    /\ df.rows[window - 1].mavg.nan
    /\ ~df.rows[Len(df.rows)].mavg.nan
    /\ df.rows[Len(df.rows)].mavg.d # 1
    /\ \E i \in window..Len(df.rows) : df.rows[i].mavg.nan

(* the run on the embedded sample with the default window, once shown *)
SampleRun == FromSample /\ window = WindowDefault /\ pc \in {"rendered", "exported"}

SampleRest ==
    /\ kpi.total_sales = 213000000
    /\ df.rows[1].mavg.nan /\ df.rows[1].label = <<2024, 1>>
    /\ df.rows[2].mavg.nan /\ df.rows[2].label = <<2024, 2>>
    /\ df.rows[3].label = <<2024, 3>>
    /\ df.rows[3].mavg = [nan |-> FALSE, n |-> 12000000 + 13500000 + 11000000, d |-> 3]
    /\ shown.extremes = << <<2024, 12>>, <<2024, 3>> >>

(* C10 as stated: on the embedded sample with window = 3, total_revenue is
   213,000,000, mean_growth_pct is about 9.7, 2024-01 and 2024-02 have no
   moving average, that of 2024-03 is (12,000,000+13,500,000+11,000,000)/3,
   the max revenue period is 2024-12 and the min 2024-03. *)
C10_SampleAsStated ==
    SampleRun => (SampleRest /\ shown.avg = [nan |-> FALSE, tenths |-> 97])

(* C10 as amended: the same, with mean_growth_pct about 10.1
   (121.4 / 12 = 10.1166...). *)
C10_SampleAmended ==
    SampleRun =>
        /\ SampleRest
        /\ shown.avg = [nan |-> FALSE, tenths |-> 101]
        /\ kpi.avg_growth.n * 120 = kpi.avg_growth.d * 1214

C10_Witness == SampleRun /\ use_sample /\ uploaded # None /\ Len(df.rows) = 12

====
